---- MODULE Spec2Model ----
(***************************************************************************)
(* A model of the slice iterator of package iterator (iter.go, options.go, *)
(* interface.go).  The iter struct is the record `it`; the backing arrays  *)
(* of the caller's slice and of the iterator's copy live in `backing`.     *)
(* A registered operation is a closure: its code (kind, fn) together with  *)
(* the environment it captured (the seen map of Unique).                   *)
(***************************************************************************)
EXTENDS Integers, Sequences, FiniteSets, TLC

VARIABLES it, backing, last, thr, hits, chan, task, recvd

vars == <<it, backing, last, thr, hits, chan, task, recvd>>

\* the callers' goroutines of the concurrent specification
concVars == <<thr, hits>>
\* the channel, its delivery goroutine and its receiver
chanVars == <<chan, task, recvd>>

(* ------------------------------ bounds -------------------------------- *)

\* longest source slice drawn
MaxLen == 2
\* element values are 0..MaxVal
MaxVal == 1
\* longest chain of registered operations
MaxOps == 2
\* goroutines calling Next concurrently
NumCallers == 2
\* largest capacity of a channel the caller makes for IntoChannel
MaxCap == 1

(* ------------------------------ inputs -------------------------------- *)

Val == 0..MaxVal

\* the nil pointer, when the element type is a pointer type
Nil == -1

\* *new(T): the zero value of the element type
Zero(kind) == IF kind = "ptr" THEN Nil ELSE 0

\* the value a pointer element points to: addresses 0 and 1 hold equal values,
\* and so do 2 and 3
Pointee(a) == a \div 2

RECURSIVE SeqsUpTo(_)
SeqsUpTo(n) ==
  IF n = 0 THEN {<<>>}
  ELSE LET shorter == SeqsUpTo(n - 1)
       IN  shorter \cup {Append(s, v) : s \in {t \in shorter : Len(t) = n - 1}, v \in Val}

Sources == SeqsUpTo(MaxLen)

\* the slice of n elements whose values tell its indices apart as far as Val
\* allows: 0, 1, .., MaxVal, 0, ..
Ramp(n) == [j \in 1..n |-> (j - 1) % (MaxVal + 1)]

\* the functions callers hand to Map
MapFns == {"inc", "dbl"}
\* the predicates callers hand to Filter
FilterFns == {"even", "nonzero"}
\* the functions callers hand to Reduce
ReduceFns == {"sum", "horner"}

\* the function a caller writes to do in one Map what Map(f1).Map(f2) does:
\* func(x) { return f2(f1(x)) }
Then(f1, f2) ==
  CASE f1 = "inc" /\ f2 = "inc" -> "inc.inc"
    [] f1 = "inc" /\ f2 = "dbl" -> "inc.dbl"
    [] f1 = "dbl" /\ f2 = "inc" -> "dbl.inc"
    [] f1 = "dbl" /\ f2 = "dbl" -> "dbl.dbl"

\* the predicate a caller writes to do in one Filter what Filter(p1).Filter(p2)
\* does: func(x) { return p1(x) && p2(x) }
Both(p1, p2) ==
  CASE p1 = "even" /\ p2 = "even" -> "even&even"
    [] p1 = "even" /\ p2 = "nonzero" -> "even&nonzero"
    [] p1 = "nonzero" /\ p2 = "even" -> "nonzero&even"
    [] p1 = "nonzero" /\ p2 = "nonzero" -> "nonzero&nonzero"

CallMapFn(fn, v) ==
  CASE fn = "inc" -> (v + 1) % (MaxVal + 1)
    [] fn = "dbl" -> (2 * v) % (MaxVal + 1)
    [] fn = "inc.inc" -> (((v + 1) % (MaxVal + 1)) + 1) % (MaxVal + 1)
    [] fn = "inc.dbl" -> (2 * ((v + 1) % (MaxVal + 1))) % (MaxVal + 1)
    [] fn = "dbl.inc" -> (((2 * v) % (MaxVal + 1)) + 1) % (MaxVal + 1)
    [] fn = "dbl.dbl" -> (2 * ((2 * v) % (MaxVal + 1))) % (MaxVal + 1)

CallFilterFn(fn, v) ==
  CASE fn = "even" -> v % 2 = 0
    [] fn = "nonzero" -> v # 0
    [] fn = "even&even" -> v % 2 = 0 /\ v % 2 = 0
    [] fn = "even&nonzero" -> v % 2 = 0 /\ v # 0
    [] fn = "nonzero&even" -> v # 0 /\ v % 2 = 0
    [] fn = "nonzero&nonzero" -> v # 0 /\ v # 0

CallReduceFn(fn, acc, v) ==
  CASE fn = "sum" -> (acc + v) % (MaxVal + 1)
    [] fn = "horner" -> (2 * acc + v) % (MaxVal + 1)

(* --------------------------- the iter struct --------------------------- *)

\* before a delivery is asked for: no channel, no goroutine, nothing received
NoChan == [buf |-> <<>>, cap |-> 0, closed |-> FALSE]
NoTask == [pc |-> "none", kind |-> "", close |-> FALSE, cur |-> 0, pending |-> <<>>, sent |-> <<>>]
NoRecv == [got |-> <<>>, closed |-> FALSE]

\* the slice it.source refers to
Source(i) == backing[i.source]

FromAliasing(kind, source, options) ==
  [it |-> [elemKind   |-> kind,
           source     |-> "caller",
           nextIndex  |-> 0,
           operations |-> <<>>,
           threadSafe |-> options.threadSafe,
           mu         |-> 0],
   backing |-> [caller |-> source, copy |-> <<>>]]

\* From: it.source aliases the caller's slice, or refers to a fresh copy of it
From(kind, source, options) ==
  [it |-> [elemKind   |-> kind,
           source     |-> IF options.copySource THEN "copy" ELSE "caller",
           nextIndex  |-> 0,
           operations |-> <<>>,
           threadSafe |-> options.threadSafe,
           mu         |-> 0],
   backing |-> [caller |-> source,
                copy   |-> IF options.copySource THEN source ELSE <<>>]]

\* next: the bounds check
nextExhausted(i) == i.nextIndex >= Len(Source(i))

\* next: the returned element, it.source[it.nextIndex]
nextValue(i) == Source(i)[i.nextIndex + 1]

nextAdvanceTwice(i) == [i EXCEPT !.nextIndex = @ + 2]

\* next: the deferred it.nextIndex++
nextAdvance(i) == [i EXCEPT !.nextIndex = @ + 1]

nextDeferFirst(i) ==
  IF nextExhausted(i)
  THEN [val |-> Zero(i.elemKind), ok |-> FALSE, it |-> nextAdvance(i)]
  ELSE [val |-> nextValue(i), ok |-> TRUE, it |-> nextAdvance(i)]

next(i) ==
  IF nextExhausted(i)
  THEN [val |-> Zero(i.elemKind), ok |-> FALSE, it |-> i]
  ELSE [val |-> nextValue(i), ok |-> TRUE, it |-> nextAdvance(i)]

\* synchronizedNext run by one caller with the mutex free: Lock, next, Unlock
synchronizedNext(i) ==
  LET locked == [i EXCEPT !.mu = 1]
      r      == next(locked)
  IN  [r EXCEPT !.it.mu = 0]

\* Next: it.nextFunc(it)
Next(i) == IF i.threadSafe THEN synchronizedNext(i) ELSE next(i)

ForEachOnce(i) ==
  LET r == Next(i)
  IN  IF ~r.ok
      THEN [it |-> r.it, calls |-> <<>>]
      ELSE [it |-> r.it, calls |-> <<r.val>>]

\* ForEach: the values handed to fn, in call order, and the iterator afterwards
RECURSIVE ForEach(_)
ForEach(i) ==
  LET r == Next(i)
  IN  IF ~r.ok
      THEN [it |-> r.it, calls |-> <<>>]
      ELSE LET rest == ForEach(r.it)
           IN  [it |-> rest.it, calls |-> <<r.val>> \o rest.calls]

\* a function value handed to Map or Filter: its code and what it captured
Func(name) == [name |-> name, deref |-> FALSE, seen |-> {}]

MapPrepend(i, fn) == [i EXCEPT !.operations = <<[kind |-> "map", fn |-> fn]>> \o @]

\* Map: append the closure m.val = fn(m.val)
Map(i, fn) == [i EXCEPT !.operations = Append(@, [kind |-> "map", fn |-> fn])]

\* Filter: append the closure m.ok = fn(m.val)
Filter(i, fn) == [i EXCEPT !.operations = Append(@, [kind |-> "filter", fn |-> fn])]

\* Unique: filterFn captures a fresh seen map; the dereferencing variant is
\* chosen only when the option is set and T is a pointer type
Unique(i, options) ==
  LET filterFn == [name  |-> "unique",
                   deref |-> options.deref /\ i.elemKind = "ptr",
                   seen  |-> {}]
  IN  Filter(i, filterFn)

uniqueKeyIdentity(fn, v) == v

\* the key filterFn looks up in seen
uniqueKey(fn, v) == IF fn.deref THEN Pointee(v) ELSE v

uniqueFilterFnNoInsert(fn, v) ==
  [ok |-> uniqueKey(fn, v) \notin fn.seen, fn |-> fn]

\* filterFn of Unique: the verdict and the closure with its updated seen map
uniqueFilterFn(fn, v) ==
  LET key == uniqueKey(fn, v)
  IN  IF key \in fn.seen
      THEN [ok |-> FALSE, fn |-> fn]
      ELSE [ok |-> TRUE, fn |-> [fn EXCEPT !.seen = @ \cup {key}]]

callOperationClobber(o, mb) ==
  IF o.kind = "map"
  THEN [mb |-> [mb EXCEPT !.val = CallMapFn(o.fn.name, mb.val)], o |-> o]
  ELSE IF o.fn.name = "unique"
       THEN LET r == uniqueFilterFn(o.fn, mb.val)
            IN  [mb |-> [mb EXCEPT !.ok = r.ok], o |-> [o EXCEPT !.fn = r.fn]]
       ELSE [mb |-> [val |-> 0, ok |-> CallFilterFn(o.fn.name, mb.val)], o |-> o]

\* op(mb) for one registered closure: the maybe and the closure afterwards
callOperation(o, mb) ==
  IF o.kind = "map"
  THEN [mb |-> [mb EXCEPT !.val = CallMapFn(o.fn.name, mb.val)], o |-> o]
  ELSE IF o.fn.name = "unique"
       THEN LET r == uniqueFilterFn(o.fn, mb.val)
            IN  [mb |-> [mb EXCEPT !.ok = r.ok], o |-> [o EXCEPT !.fn = r.fn]]
       ELSE [mb |-> [mb EXCEPT !.ok = CallFilterFn(o.fn.name, mb.val)], o |-> o]

stopAfterAlways(mb) == TRUE

stopAfterNever(mb) == FALSE

\* Collect: whether the loop over it.operations stops after an operation
stopAfter(mb) == ~mb.ok

\* Collect: the loop over it.operations from the k-th on, for one element
RECURSIVE runOperations(_, _, _, _)
runOperations(ops, k, mb, log) ==
  IF k > Len(ops)
  THEN [ops |-> ops, mb |-> mb, log |-> log]
  ELSE LET r    == callOperation(ops[k], mb)
           ops2 == [ops EXCEPT ![k] = r.o]
           log2 == Append(log, <<k, mb.val>>)
       IN  IF stopAfter(r.mb)
           THEN [ops |-> ops2, mb |-> r.mb, log |-> log2]
           ELSE runOperations(ops2, k + 1, r.mb, log2)

\* Collect: the function handed to ForEach, applied to one element
collectFn(acc, val) ==
  LET r == runOperations(acc.ops, 1, [val |-> val, ok |-> TRUE], acc.log)
  IN  [ops    |-> r.ops,
       result |-> IF r.mb.ok THEN Append(acc.result, r.mb.val) ELSE acc.result,
       log    |-> r.log]

RECURSIVE collectFold(_, _)
collectFold(acc, calls) ==
  IF calls = <<>> THEN acc
  ELSE collectFold(collectFn(acc, Head(calls)), Tail(calls))

collectStoreInPlace(b, i, result) ==
  [b EXCEPT ![i.source] = result \o SubSeq(@, Len(result) + 1, Len(@))]

\* Collect: result := make([]T, 0, len(it.source)) is an array of its own, and
\* result = append(result, mb.val) stores there: the slices the caller and
\* the iterator hold are as they were
collectStore(b, i, result) == b

CollectThenRewind(i) ==
  LET fe  == ForEach(i)
      acc == collectFold([ops |-> i.operations, result |-> <<>>, log |-> <<>>], fe.calls)
  IN  [it     |-> [fe.it EXCEPT !.operations = acc.ops, !.nextIndex = 0],
       result |-> acc.result,
       log    |-> acc.log]

CollectForgetSeen(i) ==
  LET fe  == ForEach(i)
      acc == collectFold([ops |-> i.operations, result |-> <<>>, log |-> <<>>], fe.calls)
  IN  [it |-> fe.it, result |-> acc.result, log |-> acc.log]

\* Collect
Collect(i) ==
  LET fe  == ForEach(i)
      acc == collectFold([ops |-> i.operations, result |-> <<>>, log |-> <<>>], fe.calls)
  IN  [it |-> [fe.it EXCEPT !.operations = acc.ops], result |-> acc.result, log |-> acc.log]

RECURSIVE reduceFold(_, _, _)
reduceFold(fn, result, calls) ==
  IF calls = <<>> THEN result
  ELSE reduceFold(fn, CallReduceFn(fn, result, Head(calls)), Tail(calls))

ReduceCollected(i, fn, initial) ==
  LET c == Collect(i)
  IN  [it |-> c.it, result |-> reduceFold(fn, initial, c.result)]

\* Reduce
Reduce(i, fn, initial) ==
  LET fe == ForEach(i)
  IN  [it |-> fe.it, result |-> reduceFold(fn, initial, fe.calls)]

ResetPastStart(i) == [i EXCEPT !.nextIndex = 1]

ResetAll(i) == [i EXCEPT !.nextIndex = 0, !.operations = <<>>]

\* Reset
Reset(i) == [i EXCEPT !.nextIndex = 0]

(* ------------------------------ history -------------------------------- *)

\* last: the call just made (op, its fn and arg), whether the call before it
\* was a Collect or a Reset (prev), the iterator as the call found it (pre),
\* what the call returned (ret) and the invocations of registered closures it
\* made (log: <<index, input>>); given: the elements of the caller's slice as
\* From was handed them, where the caller goes on to write to that slice

NoOp ==
  [op |-> "From", prev |-> "", fn |-> "", arg |-> 0, pre |-> 0, ret |-> 0, log |-> <<>>,
   given |-> <<>>]

Done(name, fn, arg, ret, log) ==
  [op |-> name, prev |-> IF last.op \in {"Collect", "Reset"} THEN last.op ELSE "",
   fn |-> fn, arg |-> arg, pre |-> it, ret |-> ret, log |-> log, given |-> last.given]

(* ----------------------- one caller, whole calls ----------------------- *)

Init ==
  /\ \E s \in Sources :
       LET f == From("int", s, [copySource |-> FALSE, threadSafe |-> FALSE])
       IN  it = f.it /\ backing = f.backing
  /\ last = NoOp
  /\ thr = <<>>
  /\ hits = <<>>
  /\ chan = NoChan
  /\ task = NoTask
  /\ recvd = NoRecv

DoNext ==
  /\ LET r == Next(it)
     IN  /\ it' = r.it
         /\ last' = Done("Next", "", 0, [val |-> r.val, ok |-> r.ok], <<>>)
  /\ UNCHANGED <<backing, concVars, chanVars>>

DoReset ==
  /\ it' = Reset(it)
  /\ last' = Done("Reset", "", 0, 0, <<>>)
  /\ UNCHANGED <<backing, concVars, chanVars>>

DoForEach ==
  /\ LET r == ForEach(it)
     IN  /\ it' = r.it
         /\ last' = Done("ForEach", "", 0, r.calls, <<>>)
  /\ UNCHANGED <<backing, concVars, chanVars>>

DoMap ==
  /\ Len(it.operations) < MaxOps
  /\ \E fn \in MapFns :
       /\ it' = Map(it, Func(fn))
       /\ last' = Done("Map", fn, 0, 0, <<>>)
  /\ UNCHANGED <<backing, concVars, chanVars>>

DoFilter ==
  /\ Len(it.operations) < MaxOps
  /\ \E fn \in FilterFns :
       /\ it' = Filter(it, Func(fn))
       /\ last' = Done("Filter", fn, 0, 0, <<>>)
  /\ UNCHANGED <<backing, concVars, chanVars>>

DoUnique ==
  /\ Len(it.operations) < MaxOps
  /\ \E d \in BOOLEAN :
       /\ it' = Unique(it, [deref |-> d])
       /\ last' = Done("Unique", "", d, 0, <<>>)
  /\ UNCHANGED <<backing, concVars, chanVars>>

DoCollect ==
  /\ LET r == Collect(it)
     IN  /\ it' = r.it
         /\ backing' = collectStore(backing, it, r.result)
         /\ last' = Done("Collect", "", 0, r.result, r.log)
  /\ UNCHANGED <<concVars, chanVars>>

DoReduce ==
  /\ \E fn \in ReduceFns, initial \in Val :
       LET r == Reduce(it, fn, initial)
       IN  /\ it' = r.it
           /\ last' = Done("Reduce", fn, initial, r.result, <<>>)
  /\ UNCHANGED <<backing, concVars, chanVars>>

Step ==
  \/ DoNext
  \/ DoForEach
  \/ DoMap
  \/ DoFilter
  \/ DoUnique
  \/ DoCollect
  \/ DoReduce
  \/ DoReset

Spec == Init /\ [][Step]_vars

(* ------------------ concurrent callers of Next, by steps ---------------- *)

Callers == 1..NumCallers

mutexIgnored(i) == TRUE

\* sync.Mutex: Lock returns only once the mutex is free
mutexFree(i) == i.mu = 0

Idle == [pc |-> "idle", reg |-> 0, idx |-> 0, val |-> 0, ok |-> TRUE]

InitConc ==
  /\ \E n \in 0..MaxLen, ts \in BOOLEAN :
       LET s == Ramp(n)
           f == From("int", s, [copySource |-> FALSE, threadSafe |-> ts])
       IN  /\ it = f.it
           /\ backing = f.backing
           /\ hits = [j \in 1..Len(s) |-> 0]
  /\ last = NoOp
  /\ thr = [c \in Callers |-> Idle]
  /\ chan = NoChan
  /\ task = NoTask
  /\ recvd = NoRecv

\* the variant in which a caller waits until no other call is in progress
MayCallAlone(c) ==
  /\ thr[c].pc = "idle" /\ thr[c].ok
  /\ \A d \in Callers : thr[d].pc \in {"idle", "panic"}

\* a call is made by a caller that has not yet been told ok = false
MayCall(c) == thr[c].pc = "idle" /\ thr[c].ok

\* the call returns (val, ok) to caller c, having read index idx
Returned(c, idx, val, ok) ==
  /\ thr' = [thr EXCEPT ![c] = [pc |-> "idle", reg |-> 0, idx |-> idx, val |-> val, ok |-> ok]]
  /\ hits' = IF ok THEN [hits EXCEPT ![idx] = @ + 1] ELSE hits

\* synchronizedNext: it.mu.Lock()
Lock(c) ==
  /\ it.threadSafe
  /\ MayCall(c)
  /\ mutexFree(it)
  /\ it' = [it EXCEPT !.mu = c]
  /\ thr' = [thr EXCEPT ![c].pc = "check"]
  /\ UNCHANGED <<backing, last, hits, chanVars>>

\* next: if it.nextIndex >= len(it.source) { return *new(T), false }
Check(c) ==
  /\ \/ ~it.threadSafe /\ MayCall(c)
     \/ thr[c].pc = "check"
  /\ IF nextExhausted(it)
     THEN IF it.threadSafe
          THEN /\ thr' = [thr EXCEPT ![c] = [@ EXCEPT !.pc = "unlock", !.val = Zero(it.elemKind), !.ok = FALSE]]
               /\ UNCHANGED hits
          ELSE Returned(c, thr[c].idx, Zero(it.elemKind), FALSE)
     ELSE /\ thr' = [thr EXCEPT ![c].pc = "read"]
          /\ UNCHANGED hits
  /\ UNCHANGED <<it, backing, last, chanVars>>

\* next: the operand of return, it.source[it.nextIndex]; an index past the
\* end panics, and the panic runs the deferred functions
Read(c) ==
  /\ thr[c].pc = "read"
  /\ thr' = IF it.nextIndex < Len(Source(it))
            THEN [thr EXCEPT ![c] = [@ EXCEPT !.pc = "load", !.idx = it.nextIndex + 1, !.val = nextValue(it)]]
            ELSE [thr EXCEPT ![c].pc = "loadp"]
  /\ UNCHANGED <<it, backing, last, hits, chanVars>>

\* next: the deferred it.nextIndex++, its load
Load(c) ==
  /\ thr[c].pc \in {"load", "loadp"}
  /\ thr' = [thr EXCEPT ![c] = [@ EXCEPT !.pc = IF @ = "load" THEN "store" ELSE "storep",
                                         !.reg = it.nextIndex]]
  /\ UNCHANGED <<it, backing, last, hits, chanVars>>

\* next: the deferred it.nextIndex++, its store; without the mutex the call
\* returns here, and a panicking call leaves here (past the deferred Unlock
\* if it holds the mutex)
Store(c) ==
  /\ thr[c].pc \in {"store", "storep"}
  /\ IF thr[c].pc = "storep"
     THEN /\ it' = [it EXCEPT !.nextIndex = thr[c].reg + 1,
                              !.mu = IF @ = c THEN 0 ELSE @]
          /\ thr' = [thr EXCEPT ![c].pc = "panic"]
          /\ UNCHANGED hits
     ELSE /\ it' = [it EXCEPT !.nextIndex = thr[c].reg + 1]
          /\ IF it.threadSafe
             THEN /\ thr' = [thr EXCEPT ![c] = [@ EXCEPT !.pc = "unlock", !.ok = TRUE]]
                  /\ UNCHANGED hits
             ELSE Returned(c, thr[c].idx, thr[c].val, TRUE)
  /\ UNCHANGED <<backing, last, chanVars>>

\* the deferred Unlock left out: Next returns with the mutex held
UnlockLate(c) ==
  /\ thr[c].pc = "unlock"
  /\ Returned(c, thr[c].idx, thr[c].val, thr[c].ok)
  /\ UNCHANGED <<it, backing, last, chanVars>>

\* synchronizedNext: the deferred it.mu.Unlock(), and the return
Unlock(c) ==
  /\ thr[c].pc = "unlock"
  /\ it' = [it EXCEPT !.mu = 0]
  /\ Returned(c, thr[c].idx, thr[c].val, thr[c].ok)
  /\ UNCHANGED <<backing, last, chanVars>>

StepConc ==
  \E c \in Callers :
    \/ Lock(c)
    \/ Check(c)
    \/ Read(c)
    \/ Load(c)
    \/ Store(c)
    \/ Unlock(c)

SpecConc == InitConc /\ [][StepConc]_vars

(* ---------------------- delivery into a channel ------------------------- *)

\* make(chan T, n)
makeChan(n) == [buf |-> <<>>, cap |-> n, closed |-> FALSE]

\* a channel of capacity n the caller has filled before handing it over
fullChan(n) == [buf |-> [j \in 1..n |-> 0], cap |-> n, closed |-> FALSE]

\* the channels a caller hands to IntoChannel and CollectIntoChannel:
\* unbuffered, buffered and empty, buffered and already full
CallerChans == {makeChan(n) : n \in 0..MaxCap} \cup {fullChan(n) : n \in 1..MaxCap}

\* the goroutine go func() { ... }() starts: where it stands (pc), the options
\* it captured, the value it is about to send (cur), the rest of the slice it
\* ranges over (pending), and all it has sent so far (sent)
goroutine(kind, icos) ==
  [pc      |-> IF kind = "raw" THEN "next" ELSE "collect",
   kind    |-> kind,
   close   |-> icos.closeChannel,
   cur     |-> 0,
   pending |-> <<>>,
   sent    |-> <<>>]

IntoChannelInline(i, ch, icos) ==
  LET left == SubSeq(Source(i), i.nextIndex + 1, Len(Source(i)))
  IN  [chan |-> [ch EXCEPT !.buf = @ \o left],
       task |-> [goroutine("raw", icos) EXCEPT !.pc = "finish", !.sent = left]]

IntoChannelCollected(i, ch, icos) == [chan |-> ch, task |-> goroutine("collect", icos)]

\* IntoChannel: the goroutine sends what ForEach hands it
IntoChannel(i, ch, icos) == [chan |-> ch, task |-> goroutine("raw", icos)]

\* Channel() with a channel of no capacity
ChannelUnbuffered(i) == IntoChannel(i, makeChan(0), [closeChannel |-> TRUE])

ChannelLeftOpen(i) ==
  IntoChannel(i, makeChan(Len(Source(i))), [closeChannel |-> FALSE])

\* Channel
Channel(i) == IntoChannel(i, makeChan(Len(Source(i))), [closeChannel |-> TRUE])

\* CollectIntoChannel: the goroutine sends the slice Collect returns
CollectIntoChannel(i, ch, icos) == [chan |-> ch, task |-> goroutine("collect", icos)]

CollectChannelRaw(i) ==
  IntoChannel(i, makeChan(Len(Source(i))), [closeChannel |-> TRUE])

\* CollectChannel
CollectChannel(i) ==
  CollectIntoChannel(i, makeChan(Len(Source(i))), [closeChannel |-> TRUE])

canSendAlways(ch) == TRUE

\* ch <- val goes through without a receiver when the buffer has room
canSend(ch) == Len(ch.buf) < ch.cap

\* the call that started a delivery: the channel as it was handed over (its
\* capacity and what it held) and the closeChannel option
Started(name, ch, close) ==
  [op |-> name, prev |-> "", fn |-> "",
   arg |-> [cap |-> ch.cap, close |-> close, held |-> ch.buf],
   pre |-> it, ret |-> 0, log |-> <<>>, given |-> last.given]

InitChan ==
  /\ \E s \in Sources :
       LET f == From("int", s, [copySource |-> FALSE, threadSafe |-> FALSE])
       IN  it = f.it /\ backing = f.backing
  /\ last = NoOp
  /\ thr = <<>>
  /\ hits = <<>>
  /\ chan = NoChan
  /\ task = NoTask
  /\ recvd = NoRecv

DoChannel ==
  /\ task = NoTask
  /\ LET r == Channel(it)
     IN  /\ chan' = r.chan
         /\ task' = r.task
         /\ last' = Started("Channel", r.chan, r.task.close)
  /\ UNCHANGED <<it, backing, concVars, recvd>>

DoIntoChannel ==
  /\ task = NoTask
  /\ \E ch \in CallerChans, close \in BOOLEAN :
       LET r == IntoChannel(it, ch, [closeChannel |-> close])
       IN  /\ chan' = r.chan
           /\ task' = r.task
           /\ last' = Started("IntoChannel", ch, close)
  /\ UNCHANGED <<it, backing, concVars, recvd>>

DoCollectChannel ==
  /\ task = NoTask
  /\ LET r == CollectChannel(it)
     IN  /\ chan' = r.chan
         /\ task' = r.task
         /\ last' = Started("CollectChannel", r.chan, r.task.close)
  /\ UNCHANGED <<it, backing, concVars, recvd>>

DoCollectIntoChannel ==
  /\ task = NoTask
  /\ \E ch \in CallerChans, close \in BOOLEAN :
       LET r == CollectIntoChannel(it, ch, [closeChannel |-> close])
       IN  /\ chan' = r.chan
           /\ task' = r.task
           /\ last' = Started("CollectIntoChannel", ch, close)
  /\ UNCHANGED <<it, backing, concVars, recvd>>

\* the goroutine takes the next value to send from the slice it ranges over,
\* or leaves the loop
rangeNext(t) ==
  IF t.pending = <<>>
  THEN [t EXCEPT !.pc = "finish"]
  ELSE [t EXCEPT !.pc = "send", !.cur = Head(t.pending), !.pending = Tail(t.pending)]

\* the goroutine of IntoChannel: ForEach calls Next, and fn when ok
TaskNext ==
  /\ task.pc = "next"
  /\ LET r == Next(it)
     IN  /\ it' = r.it
         /\ task' = IF r.ok
                    THEN [task EXCEPT !.pc = "send", !.cur = r.val]
                    ELSE [task EXCEPT !.pc = "finish"]
  /\ UNCHANGED <<backing, last, concVars, chan, recvd>>

\* the goroutine of CollectIntoChannel: it.Collect(), then the range loop
TaskCollect ==
  /\ task.pc = "collect"
  /\ LET r == Collect(it)
     IN  /\ it' = r.it
         /\ backing' = collectStore(backing, it, r.result)
         /\ task' = rangeNext([task EXCEPT !.pending = r.result])
  /\ UNCHANGED <<last, concVars, chan, recvd>>

\* where the goroutine goes on after ch <- val
afterSend(t) ==
  LET u == [t EXCEPT !.sent = Append(@, t.cur)]
  IN  IF t.kind = "raw" THEN [u EXCEPT !.pc = "next"] ELSE rangeNext(u)

\* ch <- val into the buffer
TaskSend ==
  /\ task.pc = "send"
  /\ canSend(chan)
  /\ chan' = [chan EXCEPT !.buf = Append(@, task.cur)]
  /\ task' = afterSend(task)
  /\ UNCHANGED <<it, backing, last, concVars, recvd>>

\* ch <- val on an unbuffered channel, handed to a receiver that is waiting
TaskHandoff ==
  /\ task.pc = "send"
  /\ chan.cap = 0
  /\ ~recvd.closed
  /\ recvd' = [recvd EXCEPT !.got = Append(@, task.cur)]
  /\ task' = afterSend(task)
  /\ UNCHANGED <<it, backing, last, concVars, chan>>

closeAlways(t, ch) == [ch EXCEPT !.closed = TRUE]

\* if icos.closeChannel { defer close(ch) }: the channel as the goroutine
\* leaves it when it returns
closeDeferred(t, ch) == IF t.close THEN [ch EXCEPT !.closed = TRUE] ELSE ch

\* the goroutine returns: the deferred close(ch), when asked for
TaskFinish ==
  /\ task.pc = "finish"
  /\ chan' = closeDeferred(task, chan)
  /\ task' = [task EXCEPT !.pc = "done"]
  /\ UNCHANGED <<it, backing, last, concVars, recvd>>

\* the receiver: <-ch yields the oldest buffered value
Recv ==
  /\ chan.buf # <<>>
  /\ ~recvd.closed
  /\ recvd' = [recvd EXCEPT !.got = Append(@, Head(chan.buf))]
  /\ chan' = [chan EXCEPT !.buf = Tail(@)]
  /\ UNCHANGED <<it, backing, last, concVars, task>>

\* the receiver: <-ch on a closed and drained channel reports it closed
RecvClosed ==
  /\ chan.buf = <<>>
  /\ chan.closed
  /\ ~recvd.closed
  /\ recvd' = [recvd EXCEPT !.closed = TRUE]
  /\ UNCHANGED <<it, backing, last, concVars, chan, task>>

\* what the caller does before it asks for delivery
BeforeDelivery ==
  /\ task = NoTask
  /\ (DoNext \/ DoForEach \/ DoReduce \/ DoReset \/ DoMap \/ DoFilter \/ DoUnique)

StepChan ==
  \/ BeforeDelivery
  \/ DoChannel
  \/ DoIntoChannel
  \/ DoCollectChannel
  \/ DoCollectIntoChannel
  \/ TaskNext
  \/ TaskCollect
  \/ TaskSend
  \/ TaskHandoff
  \/ TaskFinish
  \/ Recv
  \/ RecvClosed

SpecChan == InitChan /\ [][StepChan]_vars

(* ------------- the caller writes to the slice it gave to From ----------- *)

\* From, with the options CopySource and ThreadSafe either way
InitCopy ==
  /\ \E s \in Sources, c \in BOOLEAN, ts \in BOOLEAN :
       LET f == From("int", s, [copySource |-> c, threadSafe |-> ts])
       IN  /\ it = f.it
           /\ backing = f.backing
           /\ last = [NoOp EXCEPT !.given = [source |-> s, copySource |-> c]]
  /\ thr = <<>>
  /\ hits = <<>>
  /\ chan = NoChan
  /\ task = NoTask
  /\ recvd = NoRecv

\* source[j] = v, by the caller, on the slice it handed to From
DoWrite ==
  /\ \E j \in 1..Len(backing.caller), v \in Val :
       /\ backing' = [backing EXCEPT !.caller[j] = v]
       /\ last' = Done("Write", "", [index |-> j, val |-> v], 0, <<>>)
  /\ UNCHANGED <<it, concVars, chanVars>>

StepCopy ==
  \/ DoWrite
  \/ DoNext
  \/ DoReset

SpecCopy == InitCopy /\ [][StepCopy]_vars

(* ------------------------ a slice of pointers -------------------------- *)

\* From on a []int or on a []*T: the elements of the latter are addresses
InitPtr ==
  /\ \E kind \in {"int", "ptr"}, s \in Sources :
       LET f == From(kind, s, [copySource |-> FALSE, threadSafe |-> FALSE])
       IN  it = f.it /\ backing = f.backing
  /\ last = NoOp
  /\ thr = <<>>
  /\ hits = <<>>
  /\ chan = NoChan
  /\ task = NoTask
  /\ recvd = NoRecv

StepPtr ==
  \/ DoUnique
  \/ DoCollect
  \/ DoReset

SpecPtr == InitPtr /\ [][StepPtr]_vars

(* --------- ForEach, Collect and Reduce by steps; fn may panic ----------- *)

\* the call in progress, kept in thr: where it stands (pc), which method it
\* is, the iterator as the call found it (pre), the value ForEach got from
\* Next (val), Collect's maybe (mb), the index of the operation due (k),
\* Collect's result or the values ForEach's fn was called with (result),
\* Reduce's result (acc), the closures invoked (log), the elements fetched,
\* and whether a function has panicked
NoCall ==
  [pc |-> "idle", call |-> "", fn |-> "", arg |-> 0, pre |-> 0, val |-> 0,
   mb |-> [val |-> 0, ok |-> FALSE], k |-> 0, result |-> <<>>, acc |-> 0,
   log |-> <<>>, fetched |-> 0, aborted |-> FALSE]

\* what the caller has in place of a return value when the call panicked
Aborted == [aborted |-> TRUE]

InitCall ==
  /\ \E s \in Sources, ts \in BOOLEAN :
       LET f == From("int", s, [copySource |-> FALSE, threadSafe |-> ts])
       IN  it = f.it /\ backing = f.backing
  /\ last = NoOp
  /\ thr = NoCall
  /\ hits = <<>>
  /\ chan = NoChan
  /\ task = NoTask
  /\ recvd = NoRecv

\* what the caller does before the call that is followed step by step
BeforeCall == thr.pc = "idle" /\ (DoNext \/ DoMap \/ DoFilter \/ DoUnique)

\* the frame of a call that has just been entered
enter(name, fn, arg) ==
  [NoCall EXCEPT !.pc = "next", !.call = name, !.fn = fn, !.arg = arg, !.pre = it,
                 !.acc = arg]

CallForEach ==
  /\ thr.pc = "idle"
  /\ thr' = enter("ForEach", "", 0)
  /\ UNCHANGED <<it, backing, last, hits, chanVars>>

\* Collect: result and mb are made, then it.ForEach(func(val T) { ... })
CallCollect ==
  /\ thr.pc = "idle"
  /\ thr' = enter("Collect", "", 0)
  /\ UNCHANGED <<it, backing, last, hits, chanVars>>

\* Reduce: result := initial, then it.ForEach(func(val T) { ... })
CallReduce ==
  /\ thr.pc = "idle"
  /\ \E fn \in ReduceFns, initial \in Val : thr' = enter("Reduce", fn, initial)
  /\ UNCHANGED <<it, backing, last, hits, chanVars>>

\* ForEach: val, ok := it.Next(); if !ok { break }; otherwise fn(val) is due,
\* which in Collect starts with mb.val = val; mb.ok = true
LoopNext ==
  /\ thr.pc = "next"
  /\ LET r == Next(it)
     IN  /\ it' = r.it
         /\ thr' = IF r.ok
                   THEN [thr EXCEPT !.pc = IF thr.call = "Collect" THEN "ops" ELSE "fn",
                                    !.val = r.val,
                                    !.mb = [val |-> r.val, ok |-> TRUE],
                                    !.k = 1,
                                    !.fetched = @ + 1]
                   ELSE [thr EXCEPT !.pc = "return"]
  /\ UNCHANGED <<backing, last, hits, chanVars>>

\* a function the caller wrote: a Map function, a Filter predicate (the
\* closure Unique registers is the package's own)
callerFn(o) == o.kind = "map" \/ o.fn.name # "unique"

\* a panic without recover: the abort variant that lets ForEach carry on
\* with the next element
panicRecovered(f) == [f EXCEPT !.pc = "next"]

\* a panic in fn leaves ForEach, and Collect or Reduce around it: none of
\* them recovers or defers anything, so nothing of the call runs afterwards
panic(f) == [f EXCEPT !.pc = "done"]

\* what the caller is left with: the call's return value, or the panic
outcome(f, ret) ==
  [Done(f.call, f.fn, f.arg, IF f.aborted THEN Aborted ELSE ret, f.log)
     EXCEPT !.pre = f.pre]

\* Collect's fn: op(&mb) of the operation due returns; if !mb.ok { break }
OpReturns ==
  /\ thr.pc = "ops"
  /\ thr.k <= Len(it.operations)
  /\ LET r == callOperation(it.operations[thr.k], thr.mb)
     IN  /\ it' = [it EXCEPT !.operations[thr.k] = r.o]
         /\ thr' = [thr EXCEPT !.mb = r.mb,
                               !.log = Append(@, <<thr.k, thr.mb.val>>),
                               !.pc = IF stopAfter(r.mb) THEN "append" ELSE "ops",
                               !.k = @ + 1]
  /\ UNCHANGED <<backing, last, hits, chanVars>>

\* Collect's fn: the caller's function inside the operation due panics
OpAborts ==
  /\ thr.pc = "ops"
  /\ thr.k <= Len(it.operations)
  /\ callerFn(it.operations[thr.k])
  /\ LET f == [thr EXCEPT !.log = Append(@, <<thr.k, thr.mb.val>>), !.aborted = TRUE]
     IN  /\ thr' = panic(f)
         /\ last' = outcome(f, f.result)
  /\ UNCHANGED <<it, backing, hits, chanVars>>

\* Collect's fn after the loop: if mb.ok { result = append(result, mb.val) };
\* mb.ok = false
CollectAppend ==
  /\ \/ thr.pc = "append"
     \/ thr.pc = "ops" /\ thr.k > Len(it.operations)
  /\ thr' = [thr EXCEPT !.result = IF thr.mb.ok THEN Append(@, thr.mb.val) ELSE @,
                        !.mb.ok = FALSE,
                        !.pc = "next"]
  /\ UNCHANGED <<it, backing, last, hits, chanVars>>

\* fn(val) returns: the caller's fn of ForEach, or Reduce's
\* result = fn(result, val)
FnReturns ==
  /\ thr.pc = "fn"
  /\ thr' = IF thr.call = "Reduce"
            THEN [thr EXCEPT !.acc = CallReduceFn(thr.fn, @, thr.val), !.pc = "next"]
            ELSE [thr EXCEPT !.result = Append(@, thr.val), !.pc = "next"]
  /\ UNCHANGED <<it, backing, last, hits, chanVars>>

\* fn(val) panics: the caller's fn of ForEach, or the one given to Reduce
FnAborts ==
  /\ thr.pc = "fn"
  /\ LET f == [thr EXCEPT !.aborted = TRUE]
     IN  /\ thr' = panic(f)
         /\ last' = outcome(f, IF f.call = "Reduce" THEN f.acc ELSE f.result)
  /\ UNCHANGED <<it, backing, hits, chanVars>>

\* the loop of ForEach has ended: the call returns
CallReturns ==
  /\ thr.pc = "return"
  /\ thr' = [thr EXCEPT !.pc = "done"]
  /\ last' = outcome(thr, IF thr.call = "Reduce" THEN thr.acc ELSE thr.result)
  /\ UNCHANGED <<it, backing, hits, chanVars>>

InCallStep ==
  \/ LoopNext
  \/ OpReturns
  \/ OpAborts
  \/ CollectAppend
  \/ FnReturns
  \/ FnAborts
  \/ CallReturns

StepCall ==
  \/ BeforeCall
  \/ CallForEach
  \/ CallCollect
  \/ CallReduce
  \/ InCallStep

SpecCall == InitCall /\ [][StepCall]_vars

(* ------------- Reset while callers of Next are in their calls ----------- *)

InitRace ==
  /\ \E n \in 0..MaxLen :
       LET s == Ramp(n)
           f == From("int", s, [copySource |-> FALSE, threadSafe |-> TRUE])
       IN  /\ it = f.it
           /\ backing = f.backing
           /\ hits = [j \in 1..Len(s) |-> 0]
  /\ last = NoOp
  /\ thr = [c \in Callers |-> Idle]
  /\ chan = NoChan
  /\ task = NoTask
  /\ recvd = NoRecv

\* the variant in which Reset takes the mutex as synchronizedNext does
resetWaitsForMutex(i) == i.mu = 0

\* Reset is the single statement it.nextIndex = 0: it does not touch it.mu
resetMayRun(i) == TRUE

\* Reset, once, at any point of the callers' calls; the history keeps who
\* held the mutex, where that call stood, and what had been returned so far
DoResetAnytime ==
  /\ last.op # "Reset"
  /\ resetMayRun(it)
  /\ it' = Reset(it)
  /\ last' = Done("Reset", "",
                  [holder |-> it.mu,
                   at |-> IF it.mu = 0 THEN "idle" ELSE thr[it.mu].pc,
                   hits |-> hits],
                  0, <<>>)
  /\ UNCHANGED <<backing, concVars, chanVars>>

StepRace == StepConc \/ DoResetAnytime

SpecRace == InitRace /\ [][StepRace]_vars

(* ------- Channel and CollectChannel with a goroutine that is scheduled --- *)

\* the steps the goroutine takes by itself, without a receiver, in and after
\* its loop
TaskStep == TaskNext \/ TaskSend \/ TaskFinish

\* the caller asks for a channel of the package's making and applies nothing
\* else to the cursor once the goroutine runs; a receiver may or may not
\* receive (the channel has capacity 0 only for an empty source, when nothing
\* is sent)
StepMade ==
  \/ BeforeDelivery
  \/ DoChannel
  \/ DoCollectChannel
  \/ TaskNext
  \/ TaskCollect
  \/ TaskSend
  \/ TaskFinish
  \/ Recv
  \/ RecvClosed

\* the Go scheduler runs a goroutine that can run: its steps are taken when
\* they stay enabled, and it does not stay for ever in front of its call of
\* Collect, which needs nothing but the processor (weak fairness of
\* TaskCollect, which is enabled exactly when task.pc = "collect" and leaves
\* that place); nothing obliges a receiver to receive
SpecMade ==
  /\ InitChan
  /\ [][StepMade]_vars
  /\ WF_vars(TaskStep)
  /\ []<>(task.pc # "collect")

(* ---------- callers in ForEach on a ThreadSafe cursor, by steps --------- *)

\* ForEach: Next has returned (val, true), and fn(val) is called
EnterFn(c) ==
  /\ thr[c].pc = "idle" /\ thr[c].ok /\ thr[c].idx > 0
  /\ thr' = [thr EXCEPT ![c].pc = "fn"]
  /\ UNCHANGED <<it, backing, last, hits, chanVars>>

\* fn returns, and ForEach is back at the head of its loop
FnDone(c) ==
  /\ thr[c].pc = "fn"
  /\ thr' = [thr EXCEPT ![c] = Idle]
  /\ UNCHANGED <<it, backing, last, hits, chanVars>>

\* fn comes to a send on a full channel that nobody receives from, as the
\* fn of IntoChannel may: it stays there
FnBlocks(c) ==
  /\ thr[c].pc = "fn"
  /\ thr' = [thr EXCEPT ![c].pc = "blocked"]
  /\ UNCHANGED <<it, backing, last, hits, chanVars>>

\* fn itself calls it.Next(): synchronizedNext's it.mu.Lock(), taken from
\* inside the callback; the history keeps whose callback it was
FnCallsNext(c) ==
  /\ thr[c].pc = "fn"
  /\ last.op = "From"
  /\ mutexFree(it)
  /\ it' = [it EXCEPT !.mu = c]
  /\ thr' = [thr EXCEPT ![c].pc = "check"]
  /\ last' = [NoOp EXCEPT !.op = "Next in fn", !.arg = c, !.pre = it]
  /\ UNCHANGED <<backing, hits, chanVars>>

StepLoop ==
  \/ StepConc
  \/ \E c \in Callers :
       \/ EnterFn(c)
       \/ FnDone(c)
       \/ FnBlocks(c)
       \/ FnCallsNext(c)

SpecLoop == InitRace /\ [][StepLoop]_vars

(* ------------------------- reference semantics ------------------------- *)

\* the raw elements a call finds left: from the position to the end
Remaining(i) == SubSeq(Source(i), i.nextIndex + 1, Len(Source(i)))

Range(s) == {s[j] : j \in 1..Len(s)}

\* the elements of s at their first occurrence, in order
FirstOccurrences(s) ==
  LET keep == {j \in 1..Len(s) : \A h \in 1..(j - 1) : s[h] # s[j]}
      F[n \in 0..Len(s)] ==
        IF n = 0 THEN <<>>
        ELSE IF n \in keep THEN Append(F[n - 1], s[n]) ELSE F[n - 1]
  IN  F[Len(s)]

\* the in-flight value of x after the first k operations
RECURSIVE RefVal(_, _, _)
RefVal(ops, x, k) ==
  IF k = 0 THEN x
  ELSE IF ops[k].kind = "map"
       THEN CallMapFn(ops[k].fn.name, RefVal(ops, x, k - 1))
       ELSE RefVal(ops, x, k - 1)

RefKey(o, v) == IF o.fn.deref THEN Pointee(v) ELSE v

\* RefReach: the e-th element of xs is still kept when operation k is due;
\* RefPass: operation k keeps it
RECURSIVE RefReach(_, _, _, _)
RECURSIVE RefPass(_, _, _, _)
RefPass(ops, xs, e, k) ==
  LET in == RefVal(ops, xs[e], k - 1)
  IN  IF ops[k].kind = "map" THEN TRUE
      ELSE IF ops[k].fn.name # "unique" THEN CallFilterFn(ops[k].fn.name, in)
      ELSE /\ RefKey(ops[k], in) \notin ops[k].fn.seen
           /\ \A d \in 1..(e - 1) :
                RefReach(ops, xs, d, k) =>
                  RefKey(ops[k], RefVal(ops, xs[d], k - 1)) # RefKey(ops[k], in)

RefReach(ops, xs, e, k) == \A j \in 1..(k - 1) : RefPass(ops, xs, e, j)

\* what Collect is to return for the raw elements xs
RefResult(ops, xs) ==
  LET n == Len(ops)
      F[e \in 0..Len(xs)] ==
        IF e = 0 THEN <<>>
        ELSE IF RefReach(ops, xs, e, n + 1)
             THEN Append(F[e - 1], RefVal(ops, xs[e], n))
             ELSE F[e - 1]
  IN  F[Len(xs)]

\* the closure invocations Collect is to make: element by element, operation
\* by operation, none after the operation that dropped the element
RefLog(ops, xs) ==
  LET n == Len(ops)
      G[e \in 1..Len(xs), k \in 0..n] ==
        IF k = 0 THEN <<>>
        ELSE IF RefReach(ops, xs, e, k)
             THEN Append(G[e, k - 1], <<k, RefVal(ops, xs[e], k - 1)>>)
             ELSE G[e, k - 1]
      F[e \in 0..Len(xs)] == IF e = 0 THEN <<>> ELSE F[e - 1] \o G[e, n]
  IN  F[Len(xs)]

\* the left fold, unfolded from its last element
RECURSIVE RefFold(_, _, _)
RefFold(fn, initial, xs) ==
  IF xs = <<>> THEN initial
  ELSE CallReduceFn(fn, RefFold(fn, initial, SubSeq(xs, 1, Len(xs) - 1)), xs[Len(xs)])

(* ------------------------------ properties ----------------------------- *)

\* C1: with position < len(source), Next returns (source[position], true),
\* moves the position on by exactly one and applies no registered operation:
\* the element is the raw one and the closures are as they were.
C1_NextYieldsRaw ==
  (last.op = "Next" /\ last.pre.nextIndex < Len(Source(last.pre))) =>
    /\ last.ret = [val |-> Source(last.pre)[last.pre.nextIndex + 1], ok |-> TRUE]
    /\ it = [last.pre EXCEPT !.nextIndex = @ + 1]

C1_Witness ==
  /\ last.op = "Next"
  /\ last.ret.ok
  /\ Len(last.pre.operations) > 0
  /\ last.pre.operations[1].kind = "map"
  /\ CallMapFn(last.pre.operations[1].fn.name, last.ret.val) # last.ret.val

\* C2: with position = len(source), the empty source included, Next returns
\* the zero value and false and changes nothing, however often it is called;
\* false is returned in no other case.
C2_NextAtEnd ==
  last.op = "Next" =>
    /\ last.pre.nextIndex = Len(Source(last.pre)) =>
         /\ last.ret = [val |-> 0, ok |-> FALSE]
         /\ it = last.pre
    /\ ~last.ret.ok => last.pre.nextIndex = Len(Source(last.pre))

C2_Witness ==
  /\ last.op = "Next"
  /\ ~last.ret.ok
  /\ Len(Source(it)) = MaxLen
  /\ last.pre.nextIndex = Len(Source(it))
  /\ last.pre.operations # <<>>

\* C3: Collect returns, for the raw elements from the position to the end, in
\* order, the values left by the registered operations run in registration
\* order from keep = true; a filter that drops an element ends its run (no
\* later operation is invoked for it); exactly the kept elements are
\* appended.  Without operations the result is the raw remaining elements.
C3_CollectPipeline ==
  last.op = "Collect" =>
    /\ last.ret = RefResult(last.pre.operations, Remaining(last.pre))
    /\ last.log = RefLog(last.pre.operations, Remaining(last.pre))
    /\ last.pre.operations = <<>> => last.ret = Remaining(last.pre)

C3_Witness ==
  /\ last.op = "Collect"
  /\ Len(last.pre.operations) = 2
  /\ last.pre.operations[1].kind = "filter"
  /\ last.pre.operations[2].kind = "map"
  /\ Len(Remaining(last.pre)) = MaxLen
  /\ Len(last.ret) \in 1..(MaxLen - 1)
  /\ Len(last.log) = MaxLen + Len(last.ret)
  /\ \E j \in 1..Len(last.log) :
       /\ last.log[j][1] = 2
       /\ CallMapFn(last.pre.operations[2].fn.name, last.log[j][2]) # last.log[j][2]

\* C4: Collect leaves the position at len(source), so a Collect that follows
\* a Collect with no Reset in between returns the empty slice.
C4_CollectConsumes ==
  last.op = "Collect" =>
    /\ it.nextIndex = Len(Source(it))
    /\ last.prev = "Collect" => last.ret = <<>>

C4_Witness ==
  /\ last.op = "Collect"
  /\ last.prev = "Collect"
  /\ last.pre.operations = <<>>
  /\ Len(Source(it)) = MaxLen
  /\ last.ret = <<>>

\* C5: Reset sets the position to 0 and changes nothing else; the Next after
\* it returns the first element, and a Collect after it runs every operation
\* registered before it.
C5_ResetOnlyRewinds ==
  /\ last.op = "Reset" => it = [last.pre EXCEPT !.nextIndex = 0]
  /\ (last.prev = "Reset" /\ last.op = "Next" /\ Len(Source(it)) > 0) =>
       last.ret = [val |-> Source(it)[1], ok |-> TRUE]
  /\ (last.prev = "Reset" /\ last.op = "Collect") =>
       /\ last.ret = RefResult(last.pre.operations, Source(it))
       /\ last.log = RefLog(last.pre.operations, Source(it))

C5_Witness ==
  /\ last.op = "Reset"
  /\ Len(Source(it)) = MaxLen
  /\ last.pre.nextIndex = Len(Source(it))
  /\ Len(it.operations) = MaxOps
  /\ \E k \in 1..Len(it.operations) : it.operations[k].fn.seen # {}

\* C6: on a fresh cursor with one Unique among its operations, Collect keeps
\* at the Unique step exactly the first occurrence of each value that reaches
\* it, in that order: a value already seen is dropped, any other is recorded
\* and kept.
UniqueAt(ops) == {k \in 1..Len(ops) : ops[k].fn.name = "unique"}

Reaching(log, k) ==
  LET at == SelectSeq(log, LAMBDA entry : entry[1] = k)
  IN  [j \in 1..Len(at) |-> at[j][2]]

C6_UniqueFirstOccurrences ==
  (/\ last.op = "Collect"
   /\ last.pre.nextIndex = 0
   /\ Cardinality(UniqueAt(last.pre.operations)) = 1
   /\ \A k \in UniqueAt(last.pre.operations) : last.pre.operations[k].fn.seen = {}) =>
    \A k \in UniqueAt(last.pre.operations) :
      LET reach == Reaching(last.log, k)
      IN  /\ it.operations[k].fn.seen = Range(reach)
          /\ IF k = Len(last.pre.operations)
             THEN last.ret = FirstOccurrences(reach)
             ELSE Reaching(last.log, k + 1) = FirstOccurrences(reach)
          /\ k = 1 => reach = Source(it)

C6_Witness ==
  /\ last.op = "Collect"
  /\ last.pre.nextIndex = 0
  /\ Len(last.pre.operations) = 1
  /\ last.pre.operations[1].fn.name = "unique"
  /\ last.pre.operations[1].fn.seen = {}
  /\ Len(Source(it)) = MaxLen
  /\ Source(it)[1] = Source(it)[MaxLen]
  /\ last.ret = SubSeq(Source(it), 1, MaxLen - 1)

\* C7: the seen map of a Unique is made when Unique is called and is cleared
\* neither by Reset nor by a Collect that has returned: with Unique the only
\* operation, Collect returns the deduplicated source, and the Collect after
\* a Reset then returns the empty slice, every value being recorded as seen.
SoleUnique(i) == Len(i.operations) = 1 /\ i.operations[1].fn.name = "unique"

C7_SeenPersists ==
  /\ (last.op = "Unique") => it.operations[Len(it.operations)].fn.seen = {}
  /\ (last.op \in {"Reset", "Collect"}) =>
       \A k \in 1..Len(last.pre.operations) :
         last.pre.operations[k].fn.seen \subseteq it.operations[k].fn.seen
  /\ (last.op = "Collect" /\ SoleUnique(last.pre) /\ last.pre.nextIndex = 0) =>
       /\ last.pre.operations[1].fn.seen = {} => last.ret = FirstOccurrences(Source(it))
       /\ it.operations[1].fn.seen = last.pre.operations[1].fn.seen \cup Range(Source(it))
       /\ Range(Source(it)) \subseteq last.pre.operations[1].fn.seen => last.ret = <<>>

C7_Witness ==
  /\ last.op = "Collect"
  /\ last.prev = "Reset"
  /\ SoleUnique(last.pre)
  /\ last.pre.nextIndex = 0
  /\ Len(Source(it)) = MaxLen
  /\ last.pre.operations[1].fn.seen = Range(Source(it))
  /\ last.ret = <<>>

\* C8: Reduce returns the left fold of fn over the raw elements from the
\* position to the end, from initial; the registered operations do not enter
\* into it and none is invoked; with nothing left it returns initial.
C8_ReduceRawFold ==
  last.op = "Reduce" =>
    /\ last.ret = RefFold(last.fn, last.arg, Remaining(last.pre))
    /\ it = [last.pre EXCEPT !.nextIndex = Len(Source(last.pre))]
    /\ Remaining(last.pre) = <<>> => last.ret = last.arg

C8_Witness ==
  /\ last.op = "Reduce"
  /\ last.fn = "horner"
  /\ Len(Remaining(last.pre)) = MaxLen
  /\ Len(last.pre.operations) = MaxOps
  /\ last.pre.operations[1].kind = "map"
  /\ last.pre.operations[2].fn.name = "unique"
  /\ last.ret # RefFold("horner", last.arg, RefResult(last.pre.operations, Remaining(last.pre)))
  /\ last.ret # RefFold("sum", last.arg, Remaining(last.pre))

\* C9: on a cursor made with ThreadSafe(true), whatever the interleaving of
\* callers that only call Next, the check, the read and the increment of one
\* Next run with no other Next in between: every index is returned with
\* ok = true to at most one call and none is skipped, and once every caller
\* has been told ok = false each index has been returned exactly once (so
\* the successful calls number len(source)) and the position is len(source).
InCall == {c \in Callers : thr[c].pc \notin {"idle", "panic"}}

C9_SynchronizedNext ==
  it.threadSafe =>
    /\ \A c \in Callers : thr[c].pc # "panic"
    /\ Cardinality(InCall) <= 1
    /\ \A c \in InCall : it.mu = c
    /\ \A j \in DOMAIN hits : hits[j] <= 1
    /\ it.nextIndex <= Len(Source(it))
    /\ \A c \in Callers :
         (thr[c].pc = "idle" /\ thr[c].ok /\ thr[c].idx > 0) =>
           thr[c].val = Source(it)[thr[c].idx]
    /\ InCall = {} => {j \in DOMAIN hits : hits[j] = 1} = 1..it.nextIndex
    /\ (\A c \in Callers : thr[c].pc = "idle" /\ ~thr[c].ok) =>
         /\ it.nextIndex = Len(Source(it))
         /\ \A j \in DOMAIN hits : hits[j] = 1

C9_Witness ==
  /\ it.threadSafe
  /\ Len(Source(it)) = MaxLen
  /\ \A c \in Callers : thr[c].pc = "idle" /\ ~thr[c].ok /\ thr[c].idx > 0
  /\ \A j \in DOMAIN hits : hits[j] = 1

IsPrefix(s, t) == Len(s) <= Len(t) /\ s = SubSeq(t, 1, Len(s))

\* C10 as amended: Channel(), called with the cursor at position p and
\* nothing else using the cursor while the goroutine runs, pushes exactly the
\* len(source) - p elements from p on (all of them when p = 0), in source
\* order, into a channel of capacity len(source); the channel is closed after
\* the last of them and never before, and the receiver gets them in that
\* order before it finds the channel closed.
C10_ChannelDeliversRemaining ==
  last.op = "Channel" =>
    /\ chan.cap = Len(Source(last.pre))
    /\ IsPrefix(task.sent, Remaining(last.pre))
    /\ recvd.got \o chan.buf = task.sent
    /\ chan.closed => task.sent = Remaining(last.pre)
    /\ task.pc = "done" => chan.closed
    /\ recvd.closed => recvd.got = Remaining(last.pre)

C10_Witness ==
  /\ last.op = "Channel"
  /\ last.pre.nextIndex = 1
  /\ Len(Source(it)) = MaxLen
  /\ last.pre.operations # <<>>
  /\ task.pc = "done"
  /\ recvd.closed
  /\ recvd.got = Remaining(last.pre)

\* C10 as stated: Channel() delivers exactly len(source) elements in source
\* order, and the channel is closed after the last of them and never before.
C10_ChannelDeliversAll ==
  last.op = "Channel" =>
    /\ IsPrefix(task.sent, Source(last.pre))
    /\ chan.closed => task.sent = Source(last.pre)
    /\ task.pc = "done" => chan.closed

\* what a delivery is to push: the raw elements left for Channel and
\* IntoChannel, the slice Collect returns for the other two
Due(l) ==
  IF l.op \in {"Channel", "IntoChannel"}
  THEN Remaining(l.pre)
  ELSE RefResult(l.pre.operations, Remaining(l.pre))

\* C11: IntoChannel and CollectIntoChannel close the caller's channel only
\* with CloseChannel(true), and then only once the last element has been
\* pushed; with closeChannel = false the channel is open in every state, the
\* states after the delivery has completed included.
C11_CloseOnlyOnFinish ==
  last.op \in {"IntoChannel", "CollectIntoChannel"} =>
    /\ chan.closed => (last.arg.close /\ task.pc = "done" /\ task.sent = Due(last))
    /\ ~last.arg.close => ~chan.closed
    /\ task.pc = "done" => (task.sent = Due(last) /\ chan.closed = last.arg.close)

C11_Witness ==
  /\ last.op = "IntoChannel"
  /\ ~last.arg.close
  /\ task.pc = "done"
  /\ Len(task.sent) = MaxLen
  /\ chan.buf = <<>>
  /\ ~chan.closed

\* C12: CollectChannel is Collect followed by sending its result: what is
\* received from the returned channel is, element for element and in order,
\* the slice Collect returns from the cursor as CollectChannel found it, and
\* the channel is closed after the last of them and not before.
C12_CollectChannelIsCollect ==
  last.op = "CollectChannel" =>
    LET collected == Collect(last.pre).result
    IN  /\ IsPrefix(task.sent, collected)
        /\ recvd.got \o chan.buf = task.sent
        /\ chan.closed => task.sent = collected
        /\ task.pc = "done" => chan.closed
        /\ recvd.closed => recvd.got = collected
        /\ task.pc \notin {"collect"} => it = Collect(last.pre).it

C12_Witness ==
  /\ last.op = "CollectChannel"
  /\ Len(last.pre.operations) = MaxOps
  /\ last.pre.nextIndex = 0
  /\ recvd.closed
  /\ recvd.got # <<>>
  /\ recvd.got # Source(last.pre)
  /\ Len(recvd.got) < Len(Source(last.pre))

\* C13: with CopySource(true) no write to the caller's slice after From
\* changes what a later Next returns: Next returns the element From was
\* given; without the option Next returns what the caller's slice holds at
\* that index when Next is called, a written value included.  The writes
\* change the length of neither, so ok is as for the slice given.
C13_CopySourceIsolates ==
  last.op = "Next" =>
    LET j == last.pre.nextIndex + 1
    IN  /\ last.ret.ok = (j <= Len(last.given.source))
        /\ last.ret.ok =>
             last.ret.val = IF last.given.copySource
                            THEN last.given.source[j]
                            ELSE backing.caller[j]

C13_Witness ==
  /\ last.op = "Next"
  /\ last.given.copySource
  /\ last.ret.ok
  /\ last.pre.nextIndex = MaxLen - 1
  /\ \A j \in 1..MaxLen : backing.caller[j] # last.given.source[j]
  /\ last.ret.val = last.given.source[MaxLen]

\* the cursor i with a list of operations registered in place of its own
WithOnly(i, ops) == [i EXCEPT !.operations = ops]

\* C14: Collect with Map(f1).Map(f2) registered returns what Collect returns
\* from the same position of the same source with the one operation
\* Map(func(x) { return f2(f1(x)) }): f2(f1(x)) for each raw element x, in
\* order.
C14_MapsCompose ==
  (/\ last.op = "Collect"
   /\ Len(last.pre.operations) = 2
   /\ \A k \in 1..2 : last.pre.operations[k].kind = "map") =>
    LET f1 == last.pre.operations[1].fn.name
        f2 == last.pre.operations[2].fn.name
        xs == Remaining(last.pre)
        single == Map(WithOnly(last.pre, <<>>), Func(Then(f1, f2)))
    IN  /\ last.ret = Collect(single).result
        /\ last.ret = [j \in 1..Len(xs) |-> CallMapFn(f2, CallMapFn(f1, xs[j]))]

C14_Witness ==
  /\ last.op = "Collect"
  /\ Len(last.pre.operations) = 2
  /\ last.pre.operations[1].kind = "map"
  /\ last.pre.operations[2].kind = "map"
  /\ last.pre.operations[1].fn.name # last.pre.operations[2].fn.name
  /\ Len(last.ret) = MaxLen
  /\ \E j \in 1..MaxLen :
       last.ret[j] # CallMapFn(last.pre.operations[1].fn.name,
                               CallMapFn(last.pre.operations[2].fn.name, Source(it)[j]))

\* C15: Collect with Filter(p1).Filter(p2) registered returns what Collect
\* returns from the same position of the same source with the one operation
\* Filter(func(x) { return p1(x) && p2(x) }); a filter leaves the value as it
\* is, so the second predicate is asked about the raw element and the kept
\* elements are raw elements.
C15_FiltersConjoin ==
  (/\ last.op = "Collect"
   /\ Len(last.pre.operations) = 2
   /\ \A k \in 1..2 : /\ last.pre.operations[k].kind = "filter"
                      /\ last.pre.operations[k].fn.name \in FilterFns) =>
    LET p1 == last.pre.operations[1].fn.name
        p2 == last.pre.operations[2].fn.name
        xs == Remaining(last.pre)
        single == Filter(WithOnly(last.pre, <<>>), Func(Both(p1, p2)))
    IN  /\ last.ret = Collect(single).result
        /\ last.ret = SelectSeq(xs, LAMBDA x : CallFilterFn(p1, x) /\ CallFilterFn(p2, x))
        /\ Reaching(last.log, 2) = SelectSeq(xs, LAMBDA x : CallFilterFn(p1, x))

C15_Witness ==
  /\ last.op = "Collect"
  /\ Len(last.pre.operations) = 2
  /\ \A k \in 1..2 : /\ last.pre.operations[k].kind = "filter"
                     /\ last.pre.operations[k].fn.name \in FilterFns
  /\ Len(Remaining(last.pre)) = MaxLen
  /\ last.ret # <<>>
  /\ Len(last.ret) < MaxLen
  /\ \A j \in 1..Len(last.ret) : last.ret[j] # 0

\* the elements of xs that are the first with their key: the pointee when
\* pointers are compared by what they point to, the element itself otherwise
FirstByKey(xs, byPointee) ==
  LET key(x) == IF byPointee THEN Pointee(x) ELSE x
      keep == {j \in 1..Len(xs) : \A h \in 1..(j - 1) : key(xs[h]) # key(xs[j])}
      F[n \in 0..Len(xs)] ==
        IF n = 0 THEN <<>>
        ELSE IF n \in keep THEN Append(F[n - 1], xs[n]) ELSE F[n - 1]
  IN  F[Len(xs)]

\* C16: on a slice of pointers Unique(DerefPointers(true)) keeps, of the
\* pointers to equal values, only the first; Unique without the option keeps
\* every pointer that differs from those before it, pointers to equal values
\* included, and drops only a pointer met before; on a slice of ints the
\* option changes nothing: the closure registered is the one Unique()
\* registers.
C16_DerefCompare ==
  /\ last.op = "Unique" =>
       /\ last.pre.elemKind = "int" => it = Unique(last.pre, [deref |-> FALSE])
       /\ it.operations[Len(it.operations)].fn.deref =
            (last.arg /\ last.pre.elemKind = "ptr")
  /\ (last.op = "Collect" /\ SoleUnique(last.pre) /\ last.pre.operations[1].fn.seen = {}) =>
       LET byPointee == last.pre.operations[1].fn.deref
           xs == Remaining(last.pre)
       IN  /\ last.ret = FirstByKey(xs, byPointee)
           /\ last.pre.elemKind = "int" => last.ret = FirstOccurrences(xs)
           /\ ~byPointee => it.operations[1].fn.seen = Range(xs)
           /\ byPointee => it.operations[1].fn.seen = {Pointee(xs[j]) : j \in 1..Len(xs)}

C16_Witness ==
  /\ last.op = "Collect"
  /\ last.pre.elemKind = "ptr"
  /\ SoleUnique(last.pre)
  /\ last.pre.operations[1].fn.deref
  /\ last.pre.operations[1].fn.seen = {}
  /\ Len(Remaining(last.pre)) = MaxLen
  /\ Source(it)[1] # Source(it)[MaxLen]
  /\ Pointee(Source(it)[1]) = Pointee(Source(it)[MaxLen])
  /\ Len(last.ret) < MaxLen
  /\ last.ret[1] = Source(it)[1]

C18_ForEachDrains ==
  last.op = "ForEach" =>
    /\ last.ret = Remaining(last.pre)
    /\ Len(last.ret) = Len(Source(last.pre)) - last.pre.nextIndex
    /\ \A j \in 1..Len(last.ret) : last.ret[j] = Source(last.pre)[last.pre.nextIndex + j]
    /\ it = [last.pre EXCEPT !.nextIndex = Len(Source(last.pre))]
    /\ last.pre.nextIndex = Len(Source(last.pre)) => last.ret = <<>>

C18_Witness ==
  /\ last.op = "ForEach"
  /\ last.pre.nextIndex = 0
  /\ Len(last.ret) = MaxLen
  /\ last.ret[1] # last.ret[MaxLen]
  /\ Len(last.pre.operations) = MaxOps

\* the cursor i with no operation registered
Bare(i) == WithOnly(i, <<>>)

\* C19: whatever operations are registered, Next returns, ForEach hands to
\* fn, and Channel and IntoChannel push the raw elements, those a cursor
\* without operations yields from the same position, and none of them runs a
\* registered closure: the closures, the seen maps included, stay as they
\* were.
C19_RawStepping ==
  /\ last.op = "Next" =>
       /\ last.ret = [val |-> Next(Bare(last.pre)).val, ok |-> Next(Bare(last.pre)).ok]
       /\ it.operations = last.pre.operations
  /\ last.op = "ForEach" =>
       /\ last.ret = ForEach(Bare(last.pre)).calls
       /\ it.operations = last.pre.operations
  /\ last.op \in {"Channel", "IntoChannel"} =>
       LET raw == ForEach(Bare(last.pre)).calls
       IN  /\ IsPrefix(task.sent, raw)
           /\ task.pc = "done" => task.sent = raw
           /\ recvd.got \o chan.buf = last.arg.held \o task.sent
           /\ it.operations = last.pre.operations

C19_Witness ==
  /\ last.op = "IntoChannel"
  /\ Len(last.pre.operations) = MaxOps
  /\ last.pre.operations[1].kind = "map"
  /\ last.pre.operations[2].fn.name = "unique"
  /\ it.operations[2].fn.seen = {}
  /\ task.pc = "done"
  /\ Len(task.sent) = MaxLen
  /\ recvd.got = task.sent
  /\ \A j \in 1..MaxLen :
       CallMapFn(last.pre.operations[1].fn.name, task.sent[j]) # task.sent[j]
  /\ task.sent # Collect(last.pre).result

\* C20: Channel, IntoChannel, CollectChannel and CollectIntoChannel return
\* without waiting for a push: the call goes through whatever the channel it
\* is given, unbuffered or already full with nobody receiving, and when it
\* has returned nothing has been pushed, received or closed and the cursor
\* has not moved; every push is a later step of the goroutine.
C20_CallDoesNotWait ==
  /\ [](task = NoTask =>
          /\ ENABLED DoChannel
          /\ ENABLED DoIntoChannel
          /\ ENABLED DoCollectChannel
          /\ ENABLED DoCollectIntoChannel)
  /\ [][(task = NoTask /\ task' # NoTask) =>
          /\ last'.op \in {"Channel", "IntoChannel", "CollectChannel", "CollectIntoChannel"}
          /\ task'.pc \in {"next", "collect"}
          /\ task'.sent = <<>>
          /\ chan'.buf = last'.arg.held
          /\ ~chan'.closed
          /\ it' = it
          /\ recvd' = recvd]_vars

C20_Witness ==
  /\ last.op = "IntoChannel"
  /\ last.arg.held # <<>>
  /\ Len(chan.buf) = chan.cap
  /\ chan.buf = last.arg.held
  /\ task.pc = "send"
  /\ task.sent = <<>>
  /\ recvd.got = <<>>

\* C21: whatever a single caller calls after From, of Next, ForEach, Collect,
\* Reduce, Reset, Map, Filter and Unique, the position stays within
\* 0..len(source); From leaves the position at 0 and no operation registered.
C21_PositionInRange ==
  /\ it.nextIndex \in 0..Len(Source(it))
  /\ last.op = "From" => (it.nextIndex = 0 /\ it.operations = <<>>)

C21_Witness ==
  /\ last.op = "Next"
  /\ ~last.ret.ok
  /\ last.pre.nextIndex = MaxLen
  /\ it.nextIndex = Len(Source(it))
  /\ Len(it.operations) = MaxOps
  /\ \E k \in 1..MaxOps : it.operations[k].fn.seen # {}

\* C22: no operation on the cursor writes to the slice it iterates over: over
\* every call of Next, ForEach, Reduce, Reset, Map, Filter, Unique and of the
\* four channel methods, and over every step of their goroutines, the Collect
\* of CollectChannel and CollectIntoChannel included, the cursor refers to
\* the same slice, of the same length and with the same element at each
\* index; what a Map returns goes to the slice Collect returns only.
C22_SourceNeverWritten ==
  [][/\ it'.source = it.source
     /\ backing' = backing
     /\ Len(Source(it)') = Len(Source(it))
     /\ \A j \in 1..Len(Source(it)) : Source(it)'[j] = Source(it)[j]]_vars

C22_Witness ==
  /\ last.op = "CollectIntoChannel"
  /\ last.pre.nextIndex = 0
  /\ last.pre.operations # <<>>
  /\ last.pre.operations[1].kind = "map"
  /\ task.pc = "done"
  /\ Len(task.sent) = MaxLen
  /\ \A j \in 1..MaxLen : task.sent[j] # Source(it)[j]
  /\ recvd.got = last.arg.held \o task.sent

\* the goroutine is at ch <- val and the channel has no room: unbuffered, or
\* buffered and full
Stalled == task.pc = "send" /\ Len(chan.buf) >= chan.cap

\* C23: a goroutine at a push into a channel that is unbuffered or full stays
\* there for as long as nobody receives: no step but a receive changes the
\* goroutine, the channel or the cursor, none of the goroutine's own steps is
\* enabled, elements due are still not pushed, and the channel is not closed,
\* CloseChannel(true) or not; a receiver, when there is one, can go on.
C23_StallsWithoutReceiver ==
  /\ [](Stalled =>
          /\ ~ENABLED (TaskNext \/ TaskCollect \/ TaskSend \/ TaskFinish)
          /\ Len(task.sent) < Len(Due(last))
          /\ ~chan.closed
          /\ chan.buf # <<>> => ENABLED Recv)
  /\ [][(Stalled /\ recvd' = recvd) => (task' = task /\ chan' = chan /\ it' = it)]_vars

C23_Witness ==
  /\ last.op = "CollectIntoChannel"
  /\ last.arg.close
  /\ last.arg.held = <<>>
  /\ chan.cap = MaxCap
  /\ Stalled
  /\ Len(task.sent) = MaxCap
  /\ task.pending = <<>>
  /\ recvd.got = <<>>
  /\ ~chan.closed


\* C24: when a Map function, a Filter predicate, or the fn given to ForEach
\* or Reduce panics on an element, the call is over at that moment: no step
\* of the call can be taken any more, so the operations after the panicking
\* one are not invoked for that element (the panicking invocation is the
\* last one logged), the position is just past the element, i.e. no later
\* element has been fetched, and the caller holds the panic, not the partial
\* result the call had built
C24_AbortLeavesCall ==
  thr.aborted =>
    /\ thr.pc = "done"
    /\ ~ENABLED InCallStep
    /\ last.op = thr.call
    /\ last.ret = Aborted
    /\ last.log = thr.log
    /\ it.nextIndex = thr.pre.nextIndex + thr.fetched
    /\ it.nextIndex <= Len(Source(it))
    /\ thr.call = "Collect" =>
         /\ thr.log # <<>>
         /\ thr.log[Len(thr.log)] = <<thr.k, thr.mb.val>>
         /\ callerFn(it.operations[thr.k])

\* a Collect panics in the first of two operations on an element, with one
\* more element not yet fetched
C24_Witness ==
  /\ thr.aborted
  /\ thr.call = "Collect"
  /\ thr.k = 1
  /\ Len(it.operations) = 2
  /\ it.nextIndex < Len(Source(it))


\* C25: on a cursor made without ThreadSafe, Next is not atomic. Nothing
\* makes a call wait for a call in progress: a caller that may call can
\* always enter the bounds check. Each call that returns ok = true returns
\* the element it read and the mutex is never taken; nothing keeps an index
\* from being returned to several calls nor the position at or below
\* len(source), as the state below shows.
C25_UnsynchronizedNext ==
  ~it.threadSafe =>
    /\ \A c \in Callers : (thr[c].pc = "idle" /\ thr[c].ok) => ENABLED Check(c)
    /\ \A c \in Callers :
         (thr[c].pc = "idle" /\ thr[c].ok /\ thr[c].idx > 0) =>
           thr[c].val = Source(it)[thr[c].idx]
    /\ it.mu = 0

\* two calls have passed the check at the last position, read the same
\* element and returned it, and their increments left the position above
\* len(source); no call is in progress
C25_Witness ==
  /\ ~it.threadSafe
  /\ InCall = {}
  /\ \E c, d \in Callers :
       /\ c # d
       /\ thr[c].idx = Len(Source(it)) /\ thr[d].idx = thr[c].idx
       /\ thr[c].idx > 0
       /\ thr[c].val = thr[d].val
       /\ hits[thr[c].idx] >= 2
  /\ it.nextIndex > Len(Source(it))


RECURSIVE Calls(_, _)
\* the number of calls that have returned one of the first n indexes
Calls(h, n) == IF n = 0 THEN 0 ELSE h[n] + Calls(h, n - 1)

\* the calls that have returned ok = true since the Reset
SinceReset == Calls(hits, Len(hits)) - Calls(last.arg.hits, Len(hits))

\* C26: the mutex of a ThreadSafe cursor covers Next only. Reset never waits
\* for it and the calls of Next stay serialised among themselves, but a
\* Reset that takes effect after a Next has read source[position] and before
\* that Next loads the position for its increment is followed by the
\* increment: once that Next has returned (the element it read before the
\* Reset) the position is 1, not 0, and the Next after it returns the
\* element at index 1, so that the element at index 0 is returned to no
\* call after the Reset.
C26_ResetBypassesLock ==
  /\ last.op # "Reset" => ENABLED DoResetAnytime
  /\ Cardinality(InCall) <= 1
  /\ \A c \in InCall : it.mu = c
  /\ (last.op = "Reset" /\ last.arg.at = "load" /\ InCall = {}) =>
       /\ SinceReset >= 1
       /\ thr[last.arg.holder].idx > 0
       /\ SinceReset = 1 =>
            /\ it.nextIndex = 1
            /\ thr[last.arg.holder].idx = last.pre.nextIndex + 1
            /\ hits = [last.arg.hits EXCEPT ![last.pre.nextIndex + 1] = @ + 1]
       /\ SinceReset = 2 =>
            /\ it.nextIndex = 2
            /\ \A j \in DOMAIN hits :
                 hits[j] = last.arg.hits[j]
                           + (IF j = last.pre.nextIndex + 1 THEN 1 ELSE 0)
                           + (IF j = 2 THEN 1 ELSE 0)

\* a Next read the last element, Reset ran before its increment, the Next
\* returned and left the position at 1; the Next after it has returned the
\* element at index 1: the element at index 0 has not been returned again
C26_Witness ==
  /\ last.op = "Reset"
  /\ last.arg.at = "load"
  /\ last.pre.nextIndex = MaxLen - 1
  /\ last.pre.nextIndex > 0
  /\ InCall = {}
  /\ SinceReset = 2
  /\ it.nextIndex = 2
  /\ hits[1] = last.arg.hits[1]


Made == last.op \in {"Channel", "CollectChannel"}

\* C27: the goroutine started by Channel() or CollectChannel(), with nothing
\* else applied to the cursor while it runs, never waits for a receiver: the
\* channel has capacity len(source), what the goroutine has sent and is
\* about to send never exceeds it, and in its loop and at its return one
\* of the goroutine's own steps is enabled whatever the receiver does (its
\* call of Collect waits for nothing). So every call is followed by the
\* goroutine's return with the channel closed.
C27_MadeChannelCloses ==
  /\ [](Made =>
          /\ chan.cap = Len(Source(it))
          /\ Len(task.sent) + (IF task.pc = "send" THEN 1 ELSE 0) <= chan.cap
          /\ ~Stalled
          /\ task.pc \in {"next", "send", "finish"} => ENABLED TaskStep
          /\ task.pc \in {"next", "send", "finish", "collect", "done"}
          /\ task.pc = "done" => chan.closed)
  /\ Made ~> (task.pc = "done" /\ chan.closed)

\* the goroutine has returned and closed the channel, which holds as many
\* elements as it has capacity for, none of them received
C27_Witness ==
  /\ Made
  /\ task.pc = "done"
  /\ chan.closed
  /\ Len(chan.buf) = MaxLen
  /\ chan.cap = MaxLen
  /\ recvd.got = <<>>


\* the places of a caller inside a call of Next
InNext == {"check", "read", "load", "store", "unlock"}

\* C28: on a ThreadSafe cursor the mutex is held only inside a call of Next.
\* A caller between calls, inside fn, or blocked inside fn does not hold it;
\* whoever holds it is inside Next and has a step of its own enabled, up to
\* its Unlock, whatever the others do; and when nobody holds it, every
\* caller that is to call Next, from the loop of ForEach or from inside fn,
\* can take it. So a callback that calls Next or that blocks leaves no
\* caller waiting for a mutex that is never released.
C28_LockOnlyInNext ==
  /\ \A c \in Callers : thr[c].pc \in {"idle", "fn", "blocked"} => it.mu # c
  /\ \A c \in Callers : thr[c].pc \in InNext => it.mu = c
  /\ \A c \in Callers : thr[c].pc \notin {"panic", "loadp", "storep"}
  /\ it.mu # 0 =>
       ENABLED (Check(it.mu) \/ Read(it.mu) \/ Load(it.mu) \/ Store(it.mu) \/ Unlock(it.mu))
  /\ it.mu = 0 =>
       \A c \in Callers :
         /\ MayCall(c) => ENABLED Lock(c)
         /\ (thr[c].pc = "fn" /\ last.op = "From") => ENABLED FnCallsNext(c)

\* one caller is blocked inside fn for good; the callback of another has
\* called Next itself, and that call has returned; all the elements after
\* the blocked caller's have been returned, each once, and a caller has been
\* told ok = false
C28_Witness ==
  /\ Len(Source(it)) = MaxLen
  /\ \E c \in Callers : thr[c].pc = "blocked" /\ thr[c].idx = 1
  /\ last.op = "Next in fn"
  /\ thr[last.arg].pc = "idle"
  /\ \E d \in Callers : thr[d].pc = "idle" /\ ~thr[d].ok
  /\ \A j \in DOMAIN hits : hits[j] = 1
  /\ it.nextIndex = Len(Source(it))
  /\ it.mu = 0

====
